---- MODULE Spec2Model ----
(***************************************************************************)
(* A model of the archival IIIF server core:                               *)
(*   - the NIOD access policy   (src/src/service/niod/access.ts),          *)
(*   - the item store queries   (src/src/lib/Config.js, lines 90-268,      *)
(*                               which hold lib/Item.ts),                  *)
(*   - the EAD restriction classification and metadata resolver            *)
(*                              (src/unnamed/part_001, lines 126-330),     *)
(*   - the service dispatcher   (src/unnamed/part_001, lines 1-124).       *)
(* Each part has its own specification: SpecAccess, SpecEad (getAccess),   *)
(* SpecMeta (getMetadata), and for the dispatcher Spec (one process) and   *)
(* SpecDeploy (several processes). The variables of the other parts stay   *)
(* as initialised.                                                         *)
(***************************************************************************)
EXTENDS Integers, Sequences, FiniteSets, TLC

VARIABLES
    now,        \* the clock read by moment()
    store,      \* the item store: the root item of every collection id
    ev,         \* the hasAccess call in flight, with a second identity context
    ead,        \* the parsed EAD document
    accessCall, \* the last call of getAccess: its argument and its result
    tree,       \* the parsed EAD document getMetadata is called with
    metaCall,   \* the last call of getMetadata: its argument and its result
    appInstance,     \* config.appInstance of every process of the deployment
    servicesRunning, \* the descriptors every process loads, in order
    pos,             \* per process: the descriptor forEach is at
    svc,             \* per process and descriptor: what was started for it
    cronTicks,       \* per descriptor: the ticks of its schedule so far
    taskQueue        \* the task source: the tasks waiting per task type,
                     \* and the number of tasks submitted so far

accessVars == <<now, store, ev>>
eadVars == <<ead, accessCall>>
metaVars == <<tree, metaCall>>
runVars == <<appInstance, servicesRunning, pos, svc, cronTicks, taskQueue>>
vars == <<accessVars, eadVars, metaVars, runVars>>

(***************************************************************************)
(* Values that may be missing (undefined, null, an absent field or         *)
(* element) are sequences of length 0 or 1: Missing, or Some(v).           *)
(***************************************************************************)
Missing == <<>>
Some(v) == <<v>>
\* The null of a string field.
Null == "null"

(***************************************************************************)
(* Bounds of the access model.                                             *)
(***************************************************************************)
MaxTime == 3

Times == 0 .. MaxTime
\* Embargo dates leave a clock time before and a clock time after them.
AccessDates == 1 .. (MaxTime - 1)

CollectionIds == {"c1", "c2"}
ItemTypes == {"metadata", "image"}
Ips == {"10.0.0.1", "8.8.8.8"}
\* The identities argument: omitted, the empty list, a list of one token.
IdentityLists == {Missing, Some(<<>>), Some(<<"token">>)}

\* AccessState of lib/Security.js, as hasAccess uses it.
OPEN == "OPEN"
CLOSED == "CLOSED"
\* No outcome yet.
NoResult == "none"
\* The transient failure outcome of the error taxonomy; hasAccess has no
\* statement that produces it.
Unavailable == "Unavailable"

\* The static restriction classifications getAccess returns.
Classifications == {"open", "closed", "restricted", "date"}

\* The root items the store may hold for a collection: none, one without a
\* niod object, one whose niod object has no accessDate, one with a date.
RootItems ==
    {[niod |-> Missing]}
        \cup {[niod |-> Some([accessDate |-> d])] :
                d \in {Missing} \cup {Some(t) : t \in AccessDates}}
\* What the index holds under a collection id: no item, or the root item.
StoreEntries == {Missing} \cup {Some(r) : r \in RootItems}

Items ==
    [collection_id : {Null} \cup CollectionIds,
     type : ItemTypes,
     classification : Classifications]

(***************************************************************************)
(* lib/Item.ts                                                             *)
(***************************************************************************)
\* The hits of the query id:"<id>" AND collection_id:"<id>": the item
\* whose id is the id of its own collection, if the index holds it.
\* hasAccess hands over the item; the id of the query is taken to be the
\* collection id of that item, as the name of the function says.
searchHits(st, id) ==
    IF id \in DOMAIN st THEN st[id] ELSE <<>>

\* return (items.length > 0) ? items[0] : null
getRootItemByCollectionId(items) ==
    IF Len(items) > 0 THEN Some(items[1]) ELSE Missing

(***************************************************************************)
(* service/niod/access.ts                                                  *)
(***************************************************************************)
\* identities = [] : the default of an omitted argument.
defaultIdentities(identities) ==
    IF identities = Missing THEN <<>> ELSE identities[1]

\* item.collection_id === null || item.type === 'metadata'
isWithoutPayload(item) ==
    item.collection_id = Null \/ item.type = "metadata"

\* rootItem?.niod?.accessDate
accessDateOf(rootItem) ==
    IF rootItem = Missing THEN Missing
    ELSE IF rootItem[1].niod = Missing THEN Missing
    ELSE rootItem[1].niod[1].accessDate

\* moment().isAfter(moment(accessDate))
isAfter(clock, accessDate) == clock > accessDate[1]

\* Faulty variants of hasAccess: one that opens for a requester with an
\* identity, one that lets the static classification decide when there is
\* no access date, one that closes when there is no access date.
hasAccessMutIdentity(item, ip, identities, rootItem, clock) ==
    IF isWithoutPayload(item) THEN OPEN
    ELSE IF Len(defaultIdentities(identities)) > 0 THEN OPEN
    ELSE IF accessDateOf(rootItem) = Missing THEN OPEN
    ELSE IF isAfter(clock, accessDateOf(rootItem)) THEN OPEN
    ELSE CLOSED

hasAccessMutClassification(item, ip, identities, rootItem, clock) ==
    IF isWithoutPayload(item) THEN OPEN
    ELSE IF accessDateOf(rootItem) = Missing
        THEN (IF item.classification \in {"closed", "restricted"}
                THEN CLOSED ELSE OPEN)
    ELSE IF isAfter(clock, accessDateOf(rootItem)) THEN OPEN
    ELSE CLOSED

hasAccessMutFailClosed(item, ip, identities, rootItem, clock) ==
    IF isWithoutPayload(item) THEN OPEN
    ELSE IF accessDateOf(rootItem) = Missing THEN CLOSED
    ELSE IF isAfter(clock, accessDateOf(rootItem)) THEN OPEN
    ELSE CLOSED

\* The decision after the awaited root item has arrived, with the clock
\* read by moment() at that point.
hasAccess(item, ip, identities, rootItem, clock) ==
    IF isWithoutPayload(item) THEN OPEN
    ELSE IF accessDateOf(rootItem) = Missing THEN OPEN
    ELSE IF isAfter(clock, accessDateOf(rootItem)) THEN OPEN
    ELSE CLOSED

(***************************************************************************)
(* The call of hasAccess as a state machine: the call, the search and the  *)
(* scroll of getItems, and the return. The same item is evaluated for two  *)
(* identity contexts against the same store responses and clock reading.   *)
(***************************************************************************)
IdleEv ==
    [pc |-> "idle", item |-> Missing, ip |-> Null, identities |-> Missing,
     ip2 |-> Null, identities2 |-> Missing, items |-> <<>>,
     storeFailed |-> FALSE, readAt |-> -1,
     result |-> NoResult, result2 |-> NoResult]

\* The rest of hasAccess once getRootItemByCollectionId has resolved with
\* the items getItems returned.
Returned(e, items, failed) ==
    LET rootItem == getRootItemByCollectionId(items) IN
    [e EXCEPT !.pc = "done", !.items = items, !.storeFailed = failed,
              !.readAt = now,
              !.result = hasAccess(e.item[1], e.ip, e.identities, rootItem, now),
              !.result2 = hasAccess(e.item[1], e.ip2, e.identities2, rootItem, now)]

\* hasAccess({item, ip, identities}) up to its first await.
Call ==
    /\ ev.pc = "idle"
    /\ \E item \in Items, ip \in Ips, ids \in IdentityLists,
          ip2 \in Ips, ids2 \in IdentityLists :
        LET e == [IdleEv EXCEPT !.item = Some(item), !.ip = ip,
                                !.identities = ids,
                                !.ip2 = ip2, !.identities2 = ids2] IN
        IF isWithoutPayload(item)
            THEN ev' = [e EXCEPT !.pc = "done",
                          !.result = hasAccess(item, ip, ids, Missing, now),
                          !.result2 = hasAccess(item, ip2, ids2, Missing, now)]
            ELSE ev' = [e EXCEPT !.pc = "search"]
    /\ UNCHANGED <<now, store, eadVars, metaVars, runVars>>

\* getItems: the search answered. Without hits the loop is not entered.
SearchOk ==
    /\ ev.pc = "search"
    /\ LET hits == searchHits(store, ev.item[1].collection_id) IN
        IF Len(hits) > 0
            THEN ev' = [ev EXCEPT !.pc = "scroll", !.items = hits]
            ELSE ev' = Returned(ev, <<>>, FALSE)
    /\ UNCHANGED <<now, store, eadVars, metaVars, runVars>>

\* getItems: the search threw; the catch returns the items so far (none).
SearchFail ==
    /\ ev.pc = "search"
    /\ ev' = Returned(ev, <<>>, TRUE)
    /\ UNCHANGED <<now, store, eadVars, metaVars, runVars>>

\* getItems: the scroll answered with no further hits.
ScrollOk ==
    /\ ev.pc = "scroll"
    /\ ev' = Returned(ev, ev.items, FALSE)
    /\ UNCHANGED <<now, store, eadVars, metaVars, runVars>>

\* getItems: the scroll threw; the catch returns the items so far.
ScrollFail ==
    /\ ev.pc = "scroll"
    /\ ev' = Returned(ev, ev.items, TRUE)
    /\ UNCHANGED <<now, store, eadVars, metaVars, runVars>>

\* The caller has taken the decision: the next call may start.
Finish ==
    /\ ev.pc = "done"
    /\ ev' = IdleEv
    /\ UNCHANGED <<now, store, eadVars, metaVars, runVars>>

\* The clock advances.
ClockTick ==
    /\ now < MaxTime
    /\ now' = now + 1
    /\ UNCHANGED <<store, ev, eadVars, metaVars, runVars>>

(***************************************************************************)
(* Strings the code takes apart are sequences of one-character strings.    *)
(***************************************************************************)
Whitespace == {" "}

\* String.prototype.toLowerCase, on the letters the texts below use.
lowerChar(c) ==
    CASE c = "C" -> "c"
      [] c = "G" -> "g"
      [] c = "R" -> "r"
      [] c = "B" -> "b"
      [] c = "S" -> "s"
      [] c = "P" -> "p"
      [] OTHER -> c

toLowerCase(s) == [i \in 1 .. Len(s) |-> lowerChar(s[i])]

RECURSIVE trimStart(_)
trimStart(s) ==
    IF s # <<>> /\ Head(s) \in Whitespace THEN trimStart(Tail(s)) ELSE s

RECURSIVE trimEnd(_)
trimEnd(s) ==
    IF s # <<>> /\ s[Len(s)] \in Whitespace
        THEN trimEnd(SubSeq(s, 1, Len(s) - 1))
        ELSE s

\* String.prototype.trim
trim(s) == trimEnd(trimStart(s))

RECURSIVE collapseSpace(_)
collapseSpace(s) ==
    IF Len(s) < 2 THEN s
    ELSE IF s[1] \in Whitespace /\ s[2] \in Whitespace
        THEN collapseSpace(Tail(s))
        ELSE <<s[1]>> \o collapseSpace(Tail(s))

\* XPath normalize-space(): trimmed, runs of whitespace made one space.
normalizeSpace(s) == collapseSpace(trim(s))

\* String.prototype.split(sep), sep one character: never empty.
RECURSIVE split(_, _)
split(s, sep) ==
    IF \A i \in 1 .. Len(s) : s[i] # sep THEN <<s>>
    ELSE LET k == CHOOSE i \in 1 .. Len(s) :
                    s[i] = sep /\ \A j \in 1 .. (i - 1) : s[j] # sep
         IN <<SubSeq(s, 1, k - 1)>> \o split(SubSeq(s, k + 1, Len(s)), sep)

\* Array.prototype.join(sep)
RECURSIVE join(_, _)
join(parts, sep) ==
    IF parts = <<>> THEN <<>>
    ELSE IF Len(parts) = 1 THEN parts[1]
    ELSE parts[1] \o <<sep>> \o join(Tail(parts), sep)

\* The literals of getAccess.
sGesloten == <<"g", "e", "s", "l", "o", "t", "e", "n">>
sClosed == <<"c", "l", "o", "s", "e", "d">>
sBeperkt == <<"b", "e", "p", "e", "r", "k", "t">>
sRestricted == <<"r", "e", "s", "t", "r", "i", "c", "t", "e", "d">>
sDate == <<"d", "a", "t", "e">>
sOpen == <<"o", "p", "e", "n">>
sPart == <<"p", "a", "r", "t">>

(***************************************************************************)
(* The EAD document: its nodes in document order, the first the archdesc,  *)
(* the others the component levels below it. Of a node getAccess reads the *)
(* did/unitid text and the accessrestrict child: its first p and its type  *)
(* attribute. The accessrestrict of the archdesc may sit in the descgrp of *)
(* type access_and_use instead of being a child of the archdesc.           *)
(***************************************************************************)
MaxLevels == 2

\* Texts of the p of an accessrestrict.
RestrictTexts ==
    {sClosed, <<" ", "G", "e", "s", "l", "o", "t", "e", "n", " ">>,
     <<"R", "e", "s", "t", "r", "i", "c", "t", "e", "d">>, sOpen}
\* Values of the type attribute of an accessrestrict.
RestrictTypes == {sPart, sOpen, sClosed, sRestricted}
\* Texts of a unitid.
UnitIdTexts == {<<"1">>, <<"2">>, <<" ", "2">>}
\* The identifiers getAccess is called with: <root id>.<unit id>.
EadCollectionIds ==
    {<<"A", ".", "1">>, <<"A", ".", "2">>, <<"A", ".", "3">>}

AccessRestricts ==
    [p : {Missing} \cup {Some(t) : t \in RestrictTexts},
     type : {Missing} \cup {Some(t) : t \in RestrictTypes},
     descgrp : BOOLEAN]
ArchdescNodes ==
    [unitid : {Some(<<"A">>), Some(<<"1">>)},
     accessrestrict :
        {Missing} \cup
        {Some(a) : a \in {x \in AccessRestricts :
                            x.type \in {Missing, Some(sPart), Some(sClosed)}}}]
LevelNodes ==
    [unitid : {Some(t) : t \in UnitIdTexts},
     accessrestrict :
        {Missing} \cup
        {Some(a) : a \in {x \in AccessRestricts :
                            /\ x.p = Missing /\ ~x.descgrp
                            /\ x.type \in {Missing, Some(sOpen), Some(sClosed)}}}]
LevelLists ==
    UNION {[1 .. n -> LevelNodes] : n \in 0 .. MaxLevels}
Eads == {<<a>> \o ls : a \in ArchdescNodes, ls \in LevelLists}

(***************************************************************************)
(* EAD.ts: getUnitId, getAccess                                            *)
(***************************************************************************)
\* collectionId.split('.'), shift(), join('.')
getUnitId(collectionId) == join(Tail(split(collectionId, ".")), ".")

\* //ead:ead/ead:archdesc/ead:descgrp[@type="access_and_use"]/ead:accessrestrict
\* | //ead:ead/ead:archdesc/ead:accessrestrict
archdescAccessRestrict(doc) == doc[1].accessrestrict

\* //ead:ead/ead:archdesc//ead:unitid[normalize-space()="<unitId>"]
\*      /../../ead:accessrestrict : the first, in document order, of the
\* accessrestrict children of the nodes whose unitid has that text.
itemAccessRestrict(doc, unitId) ==
    LET hits == {i \in 1 .. Len(doc) :
                    /\ doc[i].unitid # Missing
                    /\ normalizeSpace(doc[i].unitid[1]) = unitId
                    /\ doc[i].accessrestrict # Missing
                    /\ ~doc[i].accessrestrict[1].descgrp}
    IN  IF hits = {} THEN Missing
        ELSE doc[CHOOSE i \in hits : \A j \in hits : i <= j].accessrestrict

\* The switch on the restriction.
classify(restriction) ==
    IF restriction = Missing THEN "open"
    ELSE IF restriction[1] \in {sGesloten, sClosed} THEN "closed"
    ELSE IF restriction[1] \in {sBeperkt, sRestricted} THEN "restricted"
    ELSE IF restriction[1] = sDate THEN "date"
    ELSE "open"

\* A faulty variant of partRestriction: an item without an accessrestrict
\* of its own keeps the restriction of the collection.
partRestrictionMutKeep(doc, unitId, restriction) ==
    LET item == itemAccessRestrict(doc, unitId) IN
    IF item # Missing
        THEN (IF item[1].type # Missing THEN item[1].type ELSE Some(sOpen))
        ELSE restriction

\* The restriction of a collection marked type="part".
partRestriction(doc, unitId, restriction) ==
    LET item == itemAccessRestrict(doc, unitId) IN
    IF item # Missing
        THEN (IF item[1].type # Missing THEN item[1].type ELSE Some(sOpen))
        ELSE Some(sOpen)

getAccess(collectionId, doc) ==
    LET accessRestrict == archdescAccessRestrict(doc) IN
    IF accessRestrict = Missing THEN classify(Missing)
    ELSE
        LET accessValue == accessRestrict[1].p
            restriction ==
                IF accessValue # Missing
                    THEN Some(trim(toLowerCase(accessValue[1])))
                    ELSE Missing
            unitId == getUnitId(collectionId)
            accessType == accessRestrict[1].type
        IN  IF accessType # Missing /\ accessType[1] = sPart
                THEN classify(partRestriction(doc, unitId, restriction))
                ELSE classify(restriction)

NoAccessCall == [called |-> FALSE, collectionId |-> <<>>, result |-> NoResult]

GetAccess ==
    /\ \E collectionId \in EadCollectionIds :
        accessCall' = [called |-> TRUE, collectionId |-> collectionId,
                       result |-> getAccess(collectionId, ead)]
    /\ UNCHANGED <<ead, accessVars, metaVars, runVars>>

(***************************************************************************)
(* The EAD document as getMetadata reads it: the archdesc and the          *)
(* component levels below it, in document order. Every level has a did,    *)
(* which is its first child and may hold a unitid and a unittitle; the     *)
(* genreform elements of a level sit in one controlaccess (or descgrp)     *)
(* child that follows the did; the components of the archdesc are the      *)
(* children of its dsc, which follows these, and the components of a       *)
(* component are its last children. The components are numbered (c01, c02, *)
(* ...) or all named c. The archdesc follows the eadheader, if there is    *)
(* one. A document may also lack the archdesc.                             *)
(***************************************************************************)
MaxComponents == 2

sFondsA == <<"F", "o", "n", "d", "s", " ", "A">>
sLetter == <<"L", "e", "t", "t", "e", "r">>
sNoTitle == <<"N", "o", " ", "t", "i", "t", "l", "e">>

\* The literals of extractFormats.
sArticle == <<"a", "r", "t", "i", "c", "l", "e">>
sSerial == <<"s", "e", "r", "i", "a", "l">>
sBook == <<"b", "o", "o", "k">>
sSound == <<"s", "o", "u", "n", "d">>
sVisual == <<"v", "i", "s", "u", "a", "l">>
sPhoto == <<"p", "h", "o", "t", "o">>
sPoster == <<"p", "o", "s", "t", "e", "r">>
sDrawing == <<"d", "r", "a", "w", "i", "n", "g">>
sObject == <<"o", "b", "j", "e", "c", "t">>
sMoving == <<"m", "o", "v", "i", "n", "g">>

\* Texts of genreform elements.
gBooks == <<"B", "o", "o", "k", "s">>
gMaps == <<"m", "a", "p", "s">>
gSound == <<"S", "o", "u", "n", "d">>
gPhotoBook == <<"P", "h", "o", "t", "o", " ", "b", "o", "o", "k">>

\* What a level holds: the texts of the unitid and of the unittitle of its
\* did, if it has them, and the texts of its genreform elements. The kinds
\* pair every way of filling the did (a unitid or none; no unittitle, a
\* blank one, one with a text) with a list of genreforms.
NodeKinds ==
    {[unitid |-> Missing, unittitle |-> Some(sFondsA),
      genreform |-> <<gBooks>>],
     [unitid |-> Some(<<"1">>), unittitle |-> Missing,
      genreform |-> <<>>],
     [unitid |-> Some(<<"1", ".", "1">>),
      unittitle |-> Some(<<" ">> \o sLetter \o <<" ">>),
      genreform |-> <<>>],
     [unitid |-> Missing, unittitle |-> Some(<<" ">>),
      genreform |-> <<>>],
     [unitid |-> Some(<<" ", "1">>), unittitle |-> Some(<<" ">>),
      genreform |-> <<gMaps>>],
     [unitid |-> Missing, unittitle |-> Missing,
      genreform |-> <<gSound, gPhotoBook, gSound>>],
     [unitid |-> Some(<<"1", ".", "1">>), unittitle |-> Missing,
      genreform |-> <<gMaps>>],
     [unitid |-> Some(<<"1">>), unittitle |-> Some(sFondsA),
      genreform |-> <<gSound>>]}

\* The parents of the levels, the archdesc (level 1) having parent 0.
RECURSIVE AncestorsOrSelf(_, _)
AncestorsOrSelf(pv, i) ==
    IF i = 0 THEN {} ELSE {i} \cup AncestorsOrSelf(pv, pv[i])

\* The parent vectors of the documents of m levels in document order.
ParentVectors(m) ==
    {pv \in [1 .. m -> 0 .. m] :
        /\ pv[1] = 0
        /\ \A j \in 2 .. m : pv[j] \in AncestorsOrSelf(pv, j - 1)}

NoArchdesc == [header |-> TRUE, numbered |-> TRUE, nodes |-> <<>>]

\* The document with or without eadheader, with numbered components or
\* not, of the levels with the parents pv and the contents ks.
Tree(h, u, pv, ks) ==
    [header |-> h, numbered |-> u,
     nodes |-> [j \in DOMAIN pv |->
                    [parent |-> pv[j], unitid |-> ks[j].unitid,
                     unittitle |-> ks[j].unittitle,
                     genreform |-> ks[j].genreform]]]

\* The identifiers getMetadata is called with.
MetaCollectionIds ==
    {<<"A", ".", "1">>, <<"A", ".", "1", ".", "1">>, <<"A", ".", "2">>}

ChildLevels(doc, i) == {j \in 1 .. Len(doc.nodes) : doc.nodes[j].parent = i}

RECURSIVE depthOf(_, _)
depthOf(doc, i) ==
    IF doc.nodes[i].parent = 0 THEN 0
    ELSE 1 + depthOf(doc, doc.nodes[i].parent)

\* Element.name()
nameOf(doc, i) ==
    IF i = 1 THEN <<"archdesc", 0>>
    ELSE IF doc.numbered THEN <<"c", depthOf(doc, i)>>
    ELSE <<"c", 0>>

(***************************************************************************)
(* EAD.ts: getMetadata                                                     *)
(***************************************************************************)
\* String.prototype.includes
includes(s, sub) ==
    \E i \in 1 .. (Len(s) - Len(sub) + 1) :
        SubSeq(s, i, i + Len(sub) - 1) = sub

\* [...new Set(formats)]: the first occurrences, in order.
RECURSIVE unique(_)
unique(seq) ==
    IF seq = <<>> THEN <<>>
    ELSE LET r == unique(SubSeq(seq, 1, Len(seq) - 1)) IN
         IF \E k \in 1 .. Len(r) : r[k] = seq[Len(seq)]
            THEN r
            ELSE Append(r, seq[Len(seq)])

\* crypto.createHash('md5').update(title).digest('hex'): a text that is no
\* text of the document, the same for the same title.
md5(title) == <<"md5">> \o title

\* const metadata = {formats: [], title: 'No title',
\*                   unitIdIsInventoryNumber: true}
NewMetadata ==
    [formats |-> <<>>, title |-> sNoTitle, unitIdIsInventoryNumber |-> TRUE,
     unitId |-> Missing, order |-> Missing, eadTitle |-> Missing]

\* The callback of formatElems.map.
classifyFormat(text) ==
    LET format == toLowerCase(text) IN
    IF includes(format, sArticle) THEN "article"
    ELSE IF includes(format, sSerial) THEN "serial"
    ELSE IF includes(format, sBook) THEN "book"
    ELSE IF includes(format, sSound) THEN "sound"
    ELSE IF \/ includes(format, sVisual) \/ includes(format, sPhoto)
            \/ includes(format, sPoster) \/ includes(format, sDrawing)
            \/ includes(format, sObject) THEN "visual"
    ELSE IF includes(format, sMoving) THEN "moving visual"
    ELSE "archive"

extractFormats(doc, i, metadata, parentMetadata) ==
    LET formatElems == doc.nodes[i].genreform
        formats == [k \in 1 .. Len(formatElems) |->
                        classifyFormat(formatElems[k])]
    IN  IF Len(formats) = 0 /\ parentMetadata # Missing
            THEN [metadata EXCEPT !.formats = parentMetadata[1].formats]
            ELSE [metadata EXCEPT !.formats = unique(formats)]

extractTitle(doc, i, metadata) ==
    LET title == doc.nodes[i].unittitle IN
    IF title # Missing
        THEN [metadata EXCEPT !.title = trim(title[1])]
        ELSE metadata

\* A faulty variant of extractUnitId: the flag follows the unitid alone.
extractUnitIdMutNoParentTest(doc, i, metadata, parentMetadata) ==
    IF metadata.title # <<>>
        THEN LET unitId == doc.nodes[i].unitid IN
             [metadata EXCEPT
                !.unitIdIsInventoryNumber = (unitId # Missing),
                !.unitId = IF unitId # Missing
                              THEN Some(trim(unitId[1]))
                              ELSE Some(md5(metadata.title))]
        ELSE metadata

extractUnitId(doc, i, metadata, parentMetadata) ==
    IF metadata.title # <<>>
        THEN LET unitId == doc.nodes[i].unitid IN
             [metadata EXCEPT
                !.unitIdIsInventoryNumber =
                    (unitId # Missing /\ parentMetadata # Missing),
                !.unitId = IF unitId # Missing
                              THEN Some(trim(unitId[1]))
                              ELSE Some(md5(metadata.title))]
        ELSE metadata

\* count(./preceding-sibling::*): the elements before the level in its
\* parent. For the archdesc that is the eadheader; for a component of the
\* archdesc the components before it in the dsc; for a component of a
\* component the did of the parent, the controlaccess of the parent and
\* the components before it.
precedingSiblings(doc, i) ==
    IF i = 1 THEN (IF doc.header THEN 1 ELSE 0)
    ELSE LET p == doc.nodes[i].parent
             levelsBefore ==
                Cardinality({j \in ChildLevels(doc, p) : j < i})
         IN  IF p = 1 THEN levelsBefore
             ELSE 1 + (IF doc.nodes[p].genreform # <<>> THEN 1 ELSE 0)
                    + levelsBefore

\* A faulty variant of precedingSiblings: only the levels are counted.
extractOrderMutLevelsOnly(doc, i, metadata) ==
    [metadata EXCEPT !.order =
        IF i = 1 THEN Some(0)
        ELSE Some(Cardinality({j \in ChildLevels(doc, doc.nodes[i].parent) :
                                    j < i}))]

extractOrder(doc, i, metadata) ==
    [metadata EXCEPT !.order = Some(precedingSiblings(doc, i))]

\* A faulty variant of extractEadTitle: always the title of the context.
extractEadTitleMutTitleOnly(metadata, parentMetadata) ==
    IF parentMetadata # Missing
        THEN [metadata EXCEPT !.eadTitle = Some(parentMetadata[1].title)]
        ELSE metadata

\* metadata.eadTitle = parentMetadata.eadTitle || parentMetadata.title
extractEadTitle(metadata, parentMetadata) ==
    IF parentMetadata # Missing
        THEN LET p == parentMetadata[1] IN
             [metadata EXCEPT !.eadTitle =
                IF p.eadTitle # Missing /\ p.eadTitle[1] # <<>>
                    THEN p.eadTitle
                    ELSE Some(p.title)]
        ELSE metadata

\* The fields content, extent, authors and dates are read from the level
\* alone and nothing reads them back; they are left out of the record.
extractMetadataFromLevel(doc, level, parentMetadata) ==
    IF level = Missing THEN NewMetadata
    ELSE LET i == level[1]
             m1 == extractFormats(doc, i, NewMetadata, parentMetadata)
             m2 == extractTitle(doc, i, m1)
             m3 == extractUnitId(doc, i, m2, parentMetadata)
             m4 == extractOrder(doc, i, m3)
         IN  extractEadTitle(m4, parentMetadata)

\* level.get('.//preceding-sibling::ead:did/..'): the first, in document
\* order, of the parents of the did elements that precede the level or one
\* of its descendants as a sibling. That is the parent of the level when
\* the parent is a component (its did precedes the level); else the level
\* itself when its did has an element after it; else nothing.
didParent(doc, i) ==
    IF i # 1 /\ doc.nodes[i].parent # 1 THEN Some(doc.nodes[i].parent)
    ELSE IF doc.nodes[i].genreform # <<>> \/ ChildLevels(doc, i) # {}
        THEN Some(i)
    ELSE Missing

RECURSIVE walkThroughLevels(_, _, _)
walkThroughLevels(doc, level, parentMetadata) ==
    IF level = Missing THEN <<>>
    ELSE LET metadata == extractMetadataFromLevel(doc, level, parentMetadata)
             parent == didParent(doc, level[1])
         IN  IF parent # Missing
                    /\ nameOf(doc, parent[1]) # nameOf(doc, level[1])
                THEN walkThroughLevels(doc, parent, Some(metadata))
                        \o <<metadata>>
                ELSE <<metadata>>

\* archdesc.get('.//ead:unitid[normalize-space()="<unitId>"]/../..'): the
\* level of the first unitid, in document order, that has the text.
targetLevel(doc, unitId) ==
    LET hits == {i \in 1 .. Len(doc.nodes) :
                    /\ doc.nodes[i].unitid # Missing
                    /\ normalizeSpace(doc.nodes[i].unitid[1]) = unitId}
    IN  IF hits = {} THEN Missing
        ELSE Some(CHOOSE i \in hits : \A j \in hits : i <= j)

\* Faulty variants of getMetadata: one that returns the chain alone when
\* the target exists, one that takes the archdesc for a missing target.
getMetadataMutChainOnly(collectionId, doc) ==
    IF doc.nodes = <<>> THEN <<>>
    ELSE LET unitId == getUnitId(collectionId)
             metadata == extractMetadataFromLevel(doc, Some(1), Missing)
             chain == walkThroughLevels(doc, targetLevel(doc, unitId),
                                        Some(metadata))
         IN  IF chain = <<>> THEN <<metadata>> ELSE chain

getMetadataMutRootForMissing(collectionId, doc) ==
    IF doc.nodes = <<>> THEN <<>>
    ELSE LET unitId == getUnitId(collectionId)
             metadata == extractMetadataFromLevel(doc, Some(1), Missing)
             target == targetLevel(doc, unitId)
         IN  <<metadata>> \o
                walkThroughLevels(doc,
                    IF target = Missing THEN Some(1) ELSE target,
                    Some(metadata))

getMetadata(collectionId, doc) ==
    IF doc.nodes = <<>> THEN <<>>
    ELSE LET unitId == getUnitId(collectionId)
             metadata == extractMetadataFromLevel(doc, Some(1), Missing)
         IN  <<metadata>> \o
                walkThroughLevels(doc, targetLevel(doc, unitId),
                                  Some(metadata))

NoMetaCall == [called |-> FALSE, collectionId |-> <<>>, result |-> <<>>]

\* getMetadata is synchronous: a call runs to its end before the next.
GetMetadata ==
    /\ ~metaCall.called
    /\ \E collectionId \in MetaCollectionIds :
        metaCall' = [called |-> TRUE, collectionId |-> collectionId,
                     result |-> getMetadata(collectionId, tree)]
    /\ UNCHANGED <<tree, accessVars, eadVars, runVars>>

\* The caller has taken the records: the next call may start.
TakeMetadata ==
    /\ metaCall.called
    /\ metaCall' = NoMetaCall
    /\ UNCHANGED <<tree, accessVars, eadVars, runVars>>

(***************************************************************************)
(* The service dispatcher (index.ts) and its configuration.                *)
(***************************************************************************)
\* The processes of a deployment and the descriptors each of them loads.
MaxProcs == 2
MaxDeployServices == 1
\* The descriptors of the single process of Spec, the ticks of a schedule
\* and the tasks submitted to the task source.
MaxServices == 2
MaxTicks == 2
MaxTasks == 2

\* Number.parseInt of a string: the decimal digits it starts with, or NaN
\* (Missing) when it starts with none.
Digits == {"0", "1", "2"}

digitValue(c) ==
    CASE c = "0" -> 0
      [] c = "1" -> 1
      [] c = "2" -> 2

RECURSIVE leadingDigits(_)
leadingDigits(s) ==
    IF s # <<>> /\ Head(s) \in Digits
        THEN <<Head(s)>> \o leadingDigits(Tail(s))
        ELSE <<>>

RECURSIVE decimal(_)
decimal(ds) ==
    IF ds = <<>> THEN 0
    ELSE decimal(SubSeq(ds, 1, Len(ds) - 1)) * 10 + digitValue(ds[Len(ds)])

parseInt(s) ==
    LET ds == leadingDigits(trimStart(s)) IN
    IF ds = <<>> THEN Missing ELSE Some(decimal(ds))

\* The values of config.appInstance: unset, or a string of the environment.
AppInstanceValues ==
    {Missing, Some(<<"0">>), Some(<<"1">>), Some(<<"2">>), Some(<<"x">>)}

\* The descriptors of lib/Service.js a configuration may name.
Descriptors ==
    {[name |-> "web", runAs |-> "web", type |-> "", cron |-> ""],
     [name |-> "index", runAs |-> "worker", type |-> "index", cron |-> ""],
     [name |-> "watcher", runAs |-> "standalone", type |-> "", cron |-> ""],
     [name |-> "update", runAs |-> "cron", type |-> "", cron |-> "58 11 * * *"]}
TaskTypes == {"index", "text"}

\* What a process holds for a descriptor: the start functions called for
\* it, how far the started function got (none, pending at an await,
\* active), the invocations of the bound capability, the tasks delivered,
\* and for a web server the outcome of its app.listen(config.port).
NoSvc ==
    [started |-> {}, phase |-> "none", invoked |-> 0, delivered |-> 0,
     listen |-> "none"]

\* A faulty variant of isFirstInstance: any numeric index passes.
isFirstInstanceMutAnyNumber(inst) ==
    inst = Missing \/ parseInt(inst[1]) # Missing

\* config.appInstance === undefined || parseInt(config.appInstance) === 0
isFirstInstance(inst) ==
    inst = Missing \/ parseInt(inst[1]) = Some(0)

\* The start functions up to their first await.
startWeb(st) ==
    [st EXCEPT !.started = @ \cup {"startWeb"}, !.phase = "pending"]

\* A faulty variant of startWorker: it runs the handler itself.
startWorkerMutInvoke(st) ==
    [st EXCEPT !.started = @ \cup {"startWorker"}, !.phase = "pending",
               !.invoked = @ + 1]

startWorker(st) ==
    [st EXCEPT !.started = @ \cup {"startWorker"}, !.phase = "pending"]

startStandalone(st) ==
    [st EXCEPT !.started = @ \cup {"startStandalone"}, !.phase = "pending"]

startCron(st) ==
    [st EXCEPT !.started = @ \cup {"startCron"}, !.phase = "pending"]

\* Faulty variants of initService: the case 'web' without its break, and
\* the case 'standalone' without its test of config.appInstance.
initServiceMutFallThrough(service, inst, st) ==
    CASE service.runAs = "web" -> startWorker(startWeb(st))
      [] service.runAs = "worker" -> startWorker(st)
      [] service.runAs = "standalone" ->
            IF isFirstInstance(inst) THEN startStandalone(st) ELSE st
      [] service.runAs = "cron" ->
            IF isFirstInstance(inst) THEN startCron(st) ELSE st
      [] OTHER -> st

initServiceMutUngatedStandalone(service, inst, st) ==
    CASE service.runAs = "web" -> startWeb(st)
      [] service.runAs = "worker" -> startWorker(st)
      [] service.runAs = "standalone" -> startStandalone(st)
      [] service.runAs = "cron" ->
            IF isFirstInstance(inst) THEN startCron(st) ELSE st
      [] OTHER -> st

\* The body of the forEach callback: the switch on service.runAs.
initService(service, inst, st) ==
    CASE service.runAs = "web" -> startWeb(st)
      [] service.runAs = "worker" -> startWorker(st)
      [] service.runAs = "standalone" ->
            IF isFirstInstance(inst) THEN startStandalone(st) ELSE st
      [] service.runAs = "cron" ->
            IF isFirstInstance(inst) THEN startCron(st) ELSE st
      [] OTHER -> st

Procs == DOMAIN appInstance
Slots == DOMAIN servicesRunning

\* servicesRunning.forEach(initService), one descriptor at a time.
InitService(p) ==
    /\ pos[p] <= Len(servicesRunning)
    /\ svc' = [svc EXCEPT ![p][pos[p]] =
                initService(servicesRunning[pos[p]], appInstance[p], @)]
    /\ pos' = [pos EXCEPT ![p] = @ + 1]
    /\ UNCHANGED <<appInstance, servicesRunning, cronTicks, taskQueue,
                   accessVars, eadVars, metaVars>>

\* A started function resumes after its awaits only once the synchronous
\* forEach has run to its end.
Resumes(p, i, fn) ==
    /\ pos[p] > Len(servicesRunning)
    /\ svc[p][i].phase = "pending"
    /\ fn \in svc[p][i].started

\* app.listen(config.port) of a new Koa application, config.port being a
\* positive port number (3333 unless the environment sets another): the
\* server binds the port, unless a server of the process holds it already;
\* then the bind fails with EADDRINUSE.
listen(procSvc) ==
    IF \E j \in DOMAIN procSvc : procSvc[j].listen = "listening"
        THEN "EADDRINUSE"
        ELSE "listening"

\* startWeb after its imports: the application is built and listens.
StartWebDone(p, i) ==
    /\ Resumes(p, i, "startWeb")
    /\ svc' = [svc EXCEPT ![p][i].phase = "active",
                          ![p][i].listen = listen(svc[p])]
    /\ UNCHANGED <<appInstance, servicesRunning, pos, cronTicks, taskQueue,
                   accessVars, eadVars, metaVars>>

\* startWorker after its awaits: onTask(service.type, handler).
StartWorkerDone(p, i) ==
    /\ Resumes(p, i, "startWorker")
    /\ svc' = [svc EXCEPT ![p][i].phase = "active"]
    /\ UNCHANGED <<appInstance, servicesRunning, pos, cronTicks, taskQueue,
                   accessVars, eadVars, metaVars>>

\* startStandalone after its await: serviceFunc().
StartStandaloneDone(p, i) ==
    /\ Resumes(p, i, "startStandalone")
    /\ svc' = [svc EXCEPT ![p][i].phase = "active", ![p][i].invoked = @ + 1]
    /\ UNCHANGED <<appInstance, servicesRunning, pos, cronTicks, taskQueue,
                   accessVars, eadVars, metaVars>>

\* startCron after its awaits: cron.schedule(service.cron, handler).
StartCronDone(p, i) ==
    /\ Resumes(p, i, "startCron")
    /\ svc' = [svc EXCEPT ![p][i].phase = "active"]
    /\ UNCHANGED <<appInstance, servicesRunning, pos, cronTicks, taskQueue,
                   accessVars, eadVars, metaVars>>

\* A tick of the schedule of descriptor i: every process that has the
\* schedule registered runs the handler.
CronTick(i) ==
    /\ servicesRunning[i].runAs = "cron"
    /\ cronTicks[i] < MaxTicks
    /\ cronTicks' = [cronTicks EXCEPT ![i] = @ + 1]
    /\ svc' = [p \in Procs |->
                IF svc[p][i].phase = "active" /\ "startCron" \in svc[p][i].started
                    THEN [svc[p] EXCEPT ![i].invoked = @ + 1]
                    ELSE svc[p]]
    /\ UNCHANGED <<appInstance, servicesRunning, pos, taskQueue,
                   accessVars, eadVars, metaVars>>

\* A task of some type is put on the task source.
SubmitTask(type) ==
    /\ taskQueue.submitted < MaxTasks
    /\ taskQueue' = [taskQueue EXCEPT !.waiting[type] = @ + 1,
                                      !.submitted = @ + 1]
    /\ UNCHANGED <<appInstance, servicesRunning, pos, svc, cronTicks,
                   accessVars, eadVars, metaVars>>

\* The task source delivers a task to a handler subscribed to its type.
DeliverTask(p, i) ==
    /\ svc[p][i].phase = "active"
    /\ "startWorker" \in svc[p][i].started
    /\ taskQueue.waiting[servicesRunning[i].type] > 0
    /\ taskQueue' = [taskQueue EXCEPT !.waiting[servicesRunning[i].type] = @ - 1]
    /\ svc' = [svc EXCEPT ![p][i].delivered = @ + 1, ![p][i].invoked = @ + 1]
    /\ UNCHANGED <<appInstance, servicesRunning, pos, cronTicks,
                   accessVars, eadVars, metaVars>>

(***************************************************************************)
(* The specifications. Each part starts the others at rest.                *)
(***************************************************************************)
NoTasks == [waiting |-> [t \in TaskTypes |-> 0], submitted |-> 0]

AccessAtRest ==
    /\ now = 0
    /\ store = [c \in CollectionIds |-> Missing]
    /\ ev = IdleEv

EadAtRest ==
    /\ ead = <<[unitid |-> Some(<<"A">>), accessrestrict |-> Missing]>>
    /\ accessCall = NoAccessCall

MetaAtRest ==
    /\ tree = NoArchdesc
    /\ metaCall = NoMetaCall

RunAtRest ==
    /\ appInstance = <<Missing>>
    /\ servicesRunning = <<>>
    /\ pos = <<1>>
    /\ svc = <<<<>>>>
    /\ cronTicks = <<>>
    /\ taskQueue = NoTasks

InitAccess ==
    /\ now \in Times
    /\ store \in [CollectionIds -> StoreEntries]
    /\ ev = IdleEv
    /\ EadAtRest
    /\ MetaAtRest
    /\ RunAtRest

NextAccess ==
    \/ Call
    \/ SearchOk
    \/ SearchFail
    \/ ScrollOk
    \/ ScrollFail
    \/ Finish
    \/ ClockTick

SpecAccess == InitAccess /\ [][NextAccess]_vars

InitEad ==
    /\ ead \in Eads
    /\ accessCall = NoAccessCall
    /\ AccessAtRest
    /\ MetaAtRest
    /\ RunAtRest

NextEad == GetAccess

SpecEad == InitEad /\ [][NextEad]_vars

InitMeta ==
    /\ \/ tree = NoArchdesc
       \/ \E m \in 1 .. (MaxComponents + 1), h \in BOOLEAN, u \in BOOLEAN :
            \E pv \in ParentVectors(m), ks \in [1 .. m -> NodeKinds] :
                tree = Tree(h, u, pv, ks)
    /\ metaCall = NoMetaCall
    /\ AccessAtRest
    /\ EadAtRest
    /\ RunAtRest

NextMeta ==
    \/ GetMetadata
    \/ TakeMetadata

SpecMeta == InitMeta /\ [][NextMeta]_vars

\* A deployment of n identical processes, each with its own appInstance,
\* all loading the same list of at most k descriptors.
InitRun(n, k) ==
    /\ appInstance \in [1 .. n -> AppInstanceValues]
    /\ servicesRunning \in
            UNION {[1 .. m -> Descriptors] : m \in 1 .. k}
    /\ pos = [p \in 1 .. n |-> 1]
    /\ svc = [p \in 1 .. n |-> [i \in DOMAIN servicesRunning |-> NoSvc]]
    /\ cronTicks = [i \in DOMAIN servicesRunning |-> 0]
    /\ taskQueue = NoTasks
    /\ AccessAtRest
    /\ EadAtRest
    /\ MetaAtRest

\* One process, with the ticks of its schedules and the tasks of the task
\* source.
Init == InitRun(1, MaxServices)

Next ==
    \/ \E p \in Procs : InitService(p)
    \/ \E p \in Procs, i \in Slots : StartWebDone(p, i)
    \/ \E p \in Procs, i \in Slots : StartWorkerDone(p, i)
    \/ \E p \in Procs, i \in Slots : StartStandaloneDone(p, i)
    \/ \E p \in Procs, i \in Slots : StartCronDone(p, i)
    \/ \E i \in Slots : CronTick(i)
    \/ \E t \in TaskTypes : SubmitTask(t)
    \/ \E p \in Procs, i \in Slots : DeliverTask(p, i)

Spec == Init /\ [][Next]_vars

\* The startup of a deployment of up to MaxProcs processes.
InitDeploy == \E n \in 1 .. MaxProcs : InitRun(n, MaxDeployServices)

NextDeploy ==
    \/ \E p \in Procs : InitService(p)
    \/ \E p \in Procs, i \in Slots : StartWebDone(p, i)
    \/ \E p \in Procs, i \in Slots : StartWorkerDone(p, i)
    \/ \E p \in Procs, i \in Slots : StartStandaloneDone(p, i)
    \/ \E p \in Procs, i \in Slots : StartCronDone(p, i)

SpecDeploy == InitDeploy /\ [][NextDeploy]_vars

(***************************************************************************)
(* Properties of hasAccess.                                                *)
(***************************************************************************)
Done == ev.pc = "done"
EvItem == ev.item[1]
HasPayload == ~isWithoutPayload(EvItem)
\* The embargo date the store holds for the collection of the item.
ConfiguredDate ==
    IF EvItem.collection_id \in DOMAIN store
        THEN accessDateOf(store[EvItem.collection_id])
        ELSE Missing

\* C1: for an item with a binary payload whose collection root defines the
\* embargo date D, the decision is Closed when the clock is read strictly
\* before D and Open when it is read at or after D (D itself included).
C1_EmbargoBoundaryInclusive ==
    (Done /\ HasPayload /\ ~ev.storeFailed /\ ConfiguredDate # Missing) =>
        /\ (ev.readAt < ConfiguredDate[1] => ev.result = CLOSED)
        /\ (ev.readAt >= ConfiguredDate[1] => ev.result = OPEN)

\* C2 as stated: without an embargo date the static classification decides,
\* closed and restricted giving Closed, open giving Open.
C2_ClassificationDecides ==
    (Done /\ HasPayload /\ ~ev.storeFailed /\ ConfiguredDate = Missing) =>
        /\ (EvItem.classification \in {"closed", "restricted"}
                => ev.result = CLOSED)
        /\ (EvItem.classification = "open" => ev.result = OPEN)

\* C2 as amended: for an item with a binary payload whose collection has no
\* embargo date, the decision is Open whatever the static classification
\* of the item is; hasAccess does not consult the classification.
C2_NoDateIsOpenForEveryClassification ==
    (Done /\ HasPayload /\ ConfiguredDate = Missing) => ev.result = OPEN

C2_Witness ==
    /\ Done /\ HasPayload /\ ConfiguredDate = Missing
    /\ EvItem.classification = "closed"
    /\ ev.items # <<>>
    /\ ev.result = OPEN

(***************************************************************************)
(* Properties of getAccess.                                                *)
(***************************************************************************)
\* The collection-level restriction: the text of the p of the accessrestrict
\* of the archdesc reads closed.
CollectionClosed ==
    /\ ead[1].accessrestrict # Missing
    /\ ead[1].accessrestrict[1].p # Missing
    /\ trim(toLowerCase(ead[1].accessrestrict[1].p[1])) \in {sClosed, sGesloten}
\* The collection-level accessrestrict is marked type="part".
MarkedPart ==
    /\ ead[1].accessrestrict # Missing
    /\ ead[1].accessrestrict[1].type = Some(sPart)
\* The nodes that bear the identifier u.
NodesOf(u) ==
    {i \in 1 .. Len(ead) :
        ead[i].unitid # Missing /\ normalizeSpace(ead[i].unitid[1]) = u}
\* Node i has an override: an accessrestrict child of its own.
HasOverride(i) ==
    ead[i].accessrestrict # Missing /\ ~ead[i].accessrestrict[1].descgrp
\* The classification an override carries: its type, open when it has none.
OverrideClass(i) ==
    IF ead[i].accessrestrict[1].type = Missing THEN "open"
    ELSE IF ead[i].accessrestrict[1].type[1] = sClosed THEN "closed"
    ELSE IF ead[i].accessrestrict[1].type[1] = sRestricted THEN "restricted"
    ELSE "open"
\* Some component level has an override of open.
SomeLevelOverriddenOpen ==
    \E i \in 2 .. Len(ead) : HasOverride(i) /\ OverrideClass(i) = "open"
CalledUnitId == getUnitId(accessCall.collectionId)

\* C3 as stated: in a collection classified closed with a subtree override
\* of open on identifier I, the classification is open for I and closed
\* for every sibling identifier without an override of its own.
C3_OverrideOpenSiblingsClosed ==
    (accessCall.called /\ CollectionClosed /\ SomeLevelOverriddenOpen) =>
        /\ (\E i \in NodesOf(CalledUnitId) \ {1} :
                HasOverride(i) /\ OverrideClass(i) = "open")
            => accessCall.result = "open"
        /\ (\A i \in NodesOf(CalledUnitId) : ~HasOverride(i))
            => accessCall.result = "closed"

\* C3 as amended: in a collection whose collection-level restriction reads
\* closed, overrides count only when the collection-level accessrestrict is
\* marked type="part". Then an identifier borne by one node gets the
\* classification of the override of that node (open when the override
\* carries none) and an identifier without an override of its own is open,
\* not closed. Without the mark every identifier is closed.
C3_PartOverrideElseOpen ==
    (accessCall.called /\ CollectionClosed) =>
        IF MarkedPart
            THEN /\ \A i \in NodesOf(CalledUnitId) :
                        (NodesOf(CalledUnitId) = {i} /\ HasOverride(i))
                            => accessCall.result = OverrideClass(i)
                 /\ (\A i \in NodesOf(CalledUnitId) : ~HasOverride(i))
                        => accessCall.result = "open"
            ELSE accessCall.result = "closed"

C3_Witness ==
    /\ accessCall.called /\ CollectionClosed /\ MarkedPart
    /\ Len(ead) = 3
    /\ NodesOf(CalledUnitId) = {3}
    /\ ~HasOverride(3)
    /\ HasOverride(2) /\ ead[2].accessrestrict[1].type = Missing
    /\ accessCall.result = "open"

(***************************************************************************)
(* Properties of hasAccess, continued.                                     *)
(***************************************************************************)
\* C4: a date-gated item whose collection has no embargo date (no root
\* item, or a root item without an access date) is Open for every identity
\* context and at every clock value.
C4_PolicyFailOpen ==
    (Done /\ EvItem.classification = "date" /\ ConfiguredDate = Missing) =>
        ev.result = OPEN /\ ev.result2 = OPEN

C4_Witness ==
    /\ Done /\ HasPayload /\ EvItem.classification = "date"
    /\ store[EvItem.collection_id] = Missing
    /\ ev.readAt = MaxTime
    /\ ev.identities2 # Missing
    /\ ev.result = OPEN

\* C5: two identity contexts (any ip, any identities, the list omitted or
\* empty included) get the same decision for the same item, store responses
\* and clock reading, and the outcome is always a decision.
C5_IdentityIndependence ==
    Done => ev.result = ev.result2 /\ ev.result \in {OPEN, CLOSED}

C5_Witness ==
    /\ Done /\ HasPayload
    /\ ev.ip # ev.ip2
    /\ ev.identities = Missing
    /\ ev.identities2 = Some(<<"token">>)
    /\ ev.result = CLOSED /\ ev.result2 = CLOSED

\* C6: when the item store fails while the root item is fetched, the caller
\* gets the transient failure and no access decision.
C6_UnavailablePropagated ==
    (Done /\ ev.storeFailed) => ev.result = Unavailable

(***************************************************************************)
(* Properties of the dispatcher.                                           *)
(***************************************************************************)
SlotsOf(runAs) == {i \in Slots : servicesRunning[i].runAs = runAs}
\* The process has an ordinal index and it is not 0.
NotFirst(p) ==
    appInstance[p] # Missing /\ parseInt(appInstance[p][1]) # Some(0)
\* forEach has passed descriptor i in process p.
Dispatched(p, i) == i < pos[p]
\* Every process has run its forEach and every started function its awaits.
Settled ==
    \A p \in Procs :
        /\ pos[p] > Len(servicesRunning)
        /\ \A i \in Slots : svc[p][i].phase # "pending"

\* C7: in a process whose ordinal index is not 0 the capability of a
\* scheduled descriptor is never invoked, whatever ticks go by; in a process
\* whose index is 0 or unset the schedule is registered, and from then on
\* every tick of the schedule invokes the capability once.
C7_SingleInstanceGating ==
    /\ [](\A p \in Procs : \A i \in SlotsOf("cron") :
            /\ NotFirst(p) =>
                    svc[p][i].invoked = 0 /\ svc[p][i].phase = "none"
            /\ (~NotFirst(p) /\ Dispatched(p, i)) =>
                    svc[p][i].phase \in {"pending", "active"})
    /\ [][\A p \in Procs : \A i \in SlotsOf("cron") :
            (/\ ~NotFirst(p)
             /\ svc[p][i].phase = "active"
             /\ cronTicks'[i] = cronTicks[i] + 1)
                => svc'[p][i].invoked = svc[p][i].invoked + 1]_vars

C7_Witness ==
    \E i \in SlotsOf("cron") :
        /\ appInstance[1] = Some(<<"1">>)
        /\ Settled
        /\ cronTicks[i] = MaxTicks
        /\ svc[1][i].invoked = 0

\* The other case of C7: index 0, the schedule registered before its first
\* tick, the capability invoked on each of the ticks.
C7_FirstInstanceReached ==
    \E i \in SlotsOf("cron") :
        /\ appInstance[1] = Some(<<"0">>)
        /\ cronTicks[i] = MaxTicks
        /\ svc[1][i].invoked = MaxTicks

RECURSIVE totalInvoked(_, _)
totalInvoked(i, n) ==
    IF n = 0 THEN 0 ELSE svc[n][i].invoked + totalInvoked(i, n - 1)

\* The ordinal indices of the n processes are the distinct values 0..n-1,
\* or there is one process and its index is unset.
DistinctOrdinals ==
    \/ Len(appInstance) = 1 /\ appInstance[1] = Missing
    \/ /\ \A p \in Procs :
            /\ appInstance[p] # Missing
            /\ parseInt(appInstance[p][1]) # Missing
            /\ parseInt(appInstance[p][1])[1] < Len(appInstance)
       /\ \A p, q \in Procs :
            p # q => parseInt(appInstance[p][1]) # parseInt(appInstance[q][1])

\* C8: in a deployment whose processes have the ordinal indices 0..n-1 and
\* load the same descriptors, the capability of a bootstrap descriptor is
\* invoked at most once in total at any moment, only by the process of
\* index 0 (or unset), and exactly once when every startup has finished.
C8_BootstrapOncePerDeployment ==
    DistinctOrdinals =>
        \A i \in SlotsOf("standalone") :
            /\ totalInvoked(i, Len(appInstance)) <= 1
            /\ \A p \in Procs : svc[p][i].invoked > 0 => ~NotFirst(p)
            /\ Settled => totalInvoked(i, Len(appInstance)) = 1

C8_Witness ==
    /\ Len(appInstance) = MaxProcs
    /\ DistinctOrdinals
    /\ NotFirst(1)
    /\ Settled
    /\ \E i \in SlotsOf("standalone") :
            totalInvoked(i, Len(appInstance)) = 1

\* C9: the capability of a task-worker descriptor is not invoked before
\* its subscription to the task source is complete, no task is delivered
\* to it before that, and it has been invoked at least once for every task
\* delivered to it.
C9_WorkerAfterSubscription ==
    \A p \in Procs : \A i \in SlotsOf("worker") :
        /\ svc[p][i].phase # "active" =>
                svc[p][i].invoked = 0 /\ svc[p][i].delivered = 0
        /\ svc[p][i].invoked >= svc[p][i].delivered

C9_Witness ==
    \E i \in SlotsOf("worker") :
        /\ svc[1][i].phase = "active"
        /\ svc[1][i].delivered >= 1
        /\ svc[1][i].invoked = svc[1][i].delivered
        /\ taskQueue.waiting["text"] >= 1

\* The start function the switch selects for a runAs value.
StartFnOf(runAs) ==
    CASE runAs = "web" -> "startWeb"
      [] runAs = "worker" -> "startWorker"
      [] runAs = "standalone" -> "startStandalone"
      [] runAs = "cron" -> "startCron"

\* C10: for every descriptor forEach has passed, exactly the start function
\* of its runAs has been called, and none for a bootstrap or scheduled
\* descriptor in a process that fails single-instance gating; nothing is
\* started for a descriptor forEach has not reached.
C10_DispatchByMode ==
    \A p \in Procs : \A i \in Slots :
        svc[p][i].started =
            IF ~Dispatched(p, i) THEN {}
            ELSE IF servicesRunning[i].runAs \in {"standalone", "cron"}
                    /\ NotFirst(p) THEN {}
            ELSE {StartFnOf(servicesRunning[i].runAs)}

C10_Witness ==
    /\ Len(servicesRunning) = 2
    /\ Settled
    /\ NotFirst(1)
    /\ servicesRunning[1].runAs = "web"
    /\ servicesRunning[2].runAs = "cron"
    /\ svc[1][1].started = {"startWeb"}
    /\ svc[1][2].started = {}

\* C11: when the descriptor list of a process holds two or more request-
\* server descriptors, every one of them is activated and none of the
\* activations fails: once the startup has settled each has a listening
\* server, and the port is bound at most once by the process.
C11_WebDescriptorsCoexist ==
    \A p \in Procs :
        Cardinality(SlotsOf("web")) >= 2 =>
            /\ \A i \in SlotsOf("web") :
                    /\ Dispatched(p, i) => svc[p][i].started = {"startWeb"}
                    /\ svc[p][i].listen # "EADDRINUSE"
            /\ Cardinality({i \in Slots : svc[p][i].listen = "listening"}) <= 1

(***************************************************************************)
(* Properties of getMetadata.                                              *)
(***************************************************************************)
MetaDone == metaCall.called
Records == metaCall.result
HasArchdesc == tree.nodes # <<>>
\* The unqualified target of the call.
CalledTarget == getUnitId(metaCall.collectionId)
\* The levels whose identifier is the unqualified target.
LevelsOfTarget ==
    {i \in 1 .. Len(tree.nodes) :
        /\ tree.nodes[i].unitid # Missing
        /\ trim(tree.nodes[i].unitid[1]) = CalledTarget}
\* The first of them in document order.
FirstOfTarget == CHOOSE i \in LevelsOfTarget : \A j \in LevelsOfTarget : i <= j
\* The level n steps above level i.
RECURSIVE Up(_, _)
Up(i, n) == IF n = 0 THEN i ELSE Up(tree.nodes[i].parent, n - 1)
\* The level of record k: the archdesc for the first record, the target
\* for the last of the others, its parent for the one before, and so on.
RecordNode(k) ==
    IF k = 1 THEN 1 ELSE Up(FirstOfTarget, Len(Records) - k)
\* The levels before level n among the children of its parent.
LevelsBefore(n) ==
    Cardinality({j \in 1 .. (n - 1) :
                    tree.nodes[j].parent = tree.nodes[n].parent})

\* The tree of the end-to-end scenario and the call on it: the root with
\* the title "Fonds A", its child with the identifier "1" and no title
\* field, the child of that with the identifier "1.1" and the title
\* "Letter"; the call for "A.1.1".
Scenario ==
    /\ MetaDone
    /\ metaCall.collectionId = <<"A", ".", "1", ".", "1">>
    /\ Len(tree.nodes) = 3
    /\ tree.nodes[2].parent = 1
    /\ tree.nodes[3].parent = 2
    /\ tree.nodes[1].unittitle = Some(sFondsA)
    /\ tree.nodes[2].unitid = Some(<<"1">>)
    /\ tree.nodes[2].unittitle = Missing
    /\ tree.nodes[3].unitid = Some(<<"1", ".", "1">>)
    /\ tree.nodes[3].unittitle # Missing
    /\ trim(tree.nodes[3].unittitle[1]) = sLetter

\* C12 as stated: on the scenario the result is three records, root-first:
\* title "Fonds A" with the order unset; title "No title" with ancestor
\* title "Fonds A"; title "Letter" with ancestor title "No title".
C12_EndToEndAsStated ==
    Scenario =>
        /\ Len(Records) = 3
        /\ Records[1].title = sFondsA
        /\ Records[1].order = Missing
        /\ Records[2].title = sNoTitle
        /\ Records[2].eadTitle = Some(sFondsA)
        /\ Records[3].title = sLetter
        /\ Records[3].eadTitle = Some(sNoTitle)

\* C12 as amended: on the scenario, the child and the grandchild being
\* elements of different names (c01, c02), the result is three records,
\* root-first: title "Fonds A", no ancestor title, and the order set to the
\* number of elements before the root description node in the document;
\* title "No title" with ancestor title "Fonds A"; title "Letter" with
\* ancestor title "Fonds A", the title of the root, not of the parent.
\* When both are elements of the same name (c) the record of the child is
\* left out and the result is the first and the last of these records.
C12_EndToEndRootTitleDown ==
    Scenario =>
        /\ Len(Records) = IF tree.numbered THEN 3 ELSE 2
        /\ Records[1].title = sFondsA
        /\ Records[1].eadTitle = Missing
        /\ Records[1].order = Some(IF tree.header THEN 1 ELSE 0)
        /\ tree.numbered =>
                /\ Records[2].title = sNoTitle
                /\ Records[2].eadTitle = Some(sFondsA)
        /\ Records[Len(Records)].title = sLetter
        /\ Records[Len(Records)].eadTitle = Some(sFondsA)

C12_Witness ==
    /\ Scenario
    /\ tree.numbered /\ tree.header
    /\ Len(Records) = 3
    /\ Records[1].order = Some(1)
    /\ Records[3].eadTitle = Some(sFondsA)

\* C13: for every tree with a root description node and every target,
\* found in the tree or not, the result is not empty and its first record
\* is the record of the root description node extracted without an
\* inheritance context.
C13_RootInclusion ==
    (MetaDone /\ HasArchdesc) =>
        /\ Len(Records) >= 1
        /\ Records[1] = extractMetadataFromLevel(tree, Some(1), Missing)
        /\ Records[1].eadTitle = Missing

C13_Witness ==
    /\ MetaDone /\ HasArchdesc
    /\ LevelsOfTarget # {}
    /\ Len(Records) = 3
    /\ Records[1] # Records[2]
    /\ Records[1].title = sFondsA

\* C14: when no level of the tree has the unqualified target as its
\* identifier, the result is exactly one record, the record of the root.
C14_FallbackOnMissingTarget ==
    (MetaDone /\ HasArchdesc /\ LevelsOfTarget = {}) =>
        Records = <<extractMetadataFromLevel(tree, Some(1), Missing)>>

C14_Witness ==
    /\ MetaDone
    /\ Len(tree.nodes) = 3
    /\ metaCall.collectionId = <<"A", ".", "2">>
    /\ \A i \in 1 .. 3 : tree.nodes[i].unitid # Missing
    /\ LevelsOfTarget = {}
    /\ Len(Records) = 1

\* C15: a target level below the root that has no classificatory text, and
\* whose immediate parent is classified {book}, resolves to the formats
\* {book}, whatever the depth of the parent.
C15_FormatsOfImmediateParent ==
    (MetaDone /\ LevelsOfTarget # {} /\ FirstOfTarget # 1) =>
        LET t == FirstOfTarget
            p == tree.nodes[t].parent
        IN  (tree.nodes[t].genreform = <<>> /\ tree.nodes[p].genreform = <<gBooks>>)
                => Records[Len(Records)].formats = <<"book">>

\* C16 as stated: a record is marked as carrying a surrogate identifier
\* (not an inventory number) exactly when its level has no unitid and the
\* record is not the root record.
C16_SurrogateIffNoIdAndNotRoot ==
    MetaDone =>
        \A k \in 1 .. Len(Records) :
            (~Records[k].unitIdIsInventoryNumber) <=>
                (tree.nodes[RecordNode(k)].unitid = Missing /\ k # 1)

\* C16 as amended: a record with a title that is not empty is marked as
\* carrying an inventory number exactly when its level has a unitid and the
\* record is not the root record, so the root record is marked as not
\* carrying one, with or without a unitid; a record whose title is empty
\* keeps the mark it starts with, which is that of an inventory number.
C16_InventoryNumberIffIdAndNotRoot ==
    MetaDone =>
        \A k \in 1 .. Len(Records) :
            Records[k].unitIdIsInventoryNumber =
                IF Records[k].title = <<>> THEN TRUE
                ELSE (tree.nodes[RecordNode(k)].unitid # Missing /\ k # 1)

C16_Witness ==
    /\ MetaDone
    /\ Len(Records) = 3
    /\ tree.nodes[1].unitid # Missing
    /\ ~Records[1].unitIdIsInventoryNumber
    /\ tree.nodes[2].unitid = Missing
    /\ ~Records[2].unitIdIsInventoryNumber
    /\ Records[3].unitIdIsInventoryNumber

\* C17 as stated: the order of every record of a level below the root is
\* the number of levels before it among the children of its parent;
\* the elements there that are no levels do not count.
C17_OrderCountsLevelsOnly ==
    MetaDone =>
        \A k \in 2 .. Len(Records) :
            RecordNode(k) # 1 =>
                Records[k].order = Some(LevelsBefore(RecordNode(k)))

\* C17 as amended: the order of every record of a level below the root is
\* the number of all the elements before it among the children of its
\* parent: the levels before it and also the elements that are no levels,
\* which for a component of a component are the did of the parent and the
\* element that holds the genreforms of the parent, if it has any.
C17_OrderCountsAllElements ==
    MetaDone =>
        \A k \in 2 .. Len(Records) :
            LET n == RecordNode(k)
                p == tree.nodes[n].parent
            IN  n # 1 =>
                    Records[k].order =
                        Some(LevelsBefore(n)
                             + (IF p = 1 THEN 0
                                ELSE IF tree.nodes[p].genreform = <<>> THEN 1
                                ELSE 2))

C17_Witness ==
    /\ MetaDone
    /\ Len(tree.nodes) = 3
    /\ tree.nodes[3].parent = 2
    /\ tree.nodes[2].genreform # <<>>
    /\ Len(Records) = 3
    /\ Records[2].order = Some(0)
    /\ Records[3].order = Some(2)

\* C18: every record has a unitId, and a record marked as carrying an
\* inventory number is of a level that has a unitid; also for a level whose
\* unittitle is there and empty once trimmed.
C18_UnitIdAlwaysDefined ==
    MetaDone =>
        \A k \in 1 .. Len(Records) :
            /\ Records[k].unitId # Missing
            /\ Records[k].unitIdIsInventoryNumber =>
                    tree.nodes[RecordNode(k)].unitid # Missing

====
